---- MODULE Spec2Model ----
(***************************************************************************)
(* treecopy: DirectoryTree (ignore filtering + tree rendering) and the     *)
(* click command around it, as a state machine.                            *)
(*                                                                         *)
(* A Python str is a sequence of Unicode code points.  A pathlib.Path      *)
(* below the root is the sequence of its parts relative to root_dir; the   *)
(* root itself is the empty sequence.                                      *)
(***************************************************************************)
EXTENDS Integers, Sequences, FiniteSets, TLC

(* ------------------------------------------------------------------ *)
(* Bounds of the explored inputs                                       *)
(* ------------------------------------------------------------------ *)
MaxDepth == 3
MaxEntries == 4
MaxUnlistable == 1
MaxCalls == 2

(* ------------------------------------------------------------------ *)
(* String literals of the source                                       *)
(* ------------------------------------------------------------------ *)
\* "/"
SEP == <<47>>
\* "\n"
NL == <<10>>
\* "└── "
CONNECTOR_LAST == <<9492, 9472, 9472, 32>>
\* "├── "
CONNECTOR_MID == <<9500, 9472, 9472, 32>>
\* "    "
PREFIX_BLANK == <<32, 32, 32, 32>>
\* "│   "
PREFIX_BAR == <<9474, 32, 32, 32>>
\* "*."
STAR_DOT == <<42, 46>>
\* ".gitignore"
GITIGNORE_NAME == <<46, 103, 105, 116, 105, 103, 110, 111, 114, 101>>

\* '.git', '__pycache__', 'node_modules', '.env', '.idea', '.vscode',
\* '*.pyc', '*.pyo', '*.pyd', '.DS_Store'
DEFAULT_IGNORE_PATTERNS ==
    { <<46, 103, 105, 116>>,
      <<95, 95, 112, 121, 99, 97, 99, 104, 101, 95, 95>>,
      <<110, 111, 100, 101, 95, 109, 111, 100, 117, 108, 101, 115>>,
      <<46, 101, 110, 118>>,
      <<46, 105, 100, 101, 97>>,
      <<46, 118, 115, 99, 111, 100, 101>>,
      <<42, 46, 112, 121, 99>>,
      <<42, 46, 112, 121, 111>>,
      <<42, 46, 112, 121, 100>>,
      <<46, 68, 83, 95, 83, 116, 111, 114, 101>> }

(* ------------------------------------------------------------------ *)
(* The explored inputs: entry names, trees, .gitignore files           *)
(* ------------------------------------------------------------------ *)
\* "a": the name of the root directory
ROOT_NAME == <<97>>
N_b == <<98>>
N_c == <<99>>
N_d == <<100>>
N_e == <<101>>
\* "z.pyc"
N_zpyc == <<122, 46, 112, 121, 99>>

\* The names an entry of the root may have, and those an entry of a deeper
\* directory may have; an entry named d is a directory, any other a file.
RootEntryNames == {N_b, N_c, N_d, N_e, N_zpyc}
NestedEntryNames == {N_d, N_e, N_zpyc}
KindOf(nm) == IF nm = N_d THEN "dir" ELSE "file"

\* An absolute path outside root_dir: its first part is the anchor "/".
OUTSIDE_PATH == <<SEP, N_b>>

EmptyFs == [p \in {} |-> "file"]

\* The trees with exactly n entries below the root: a function from the
\* entries' paths to "file" or "dir", every entry's parent a directory,
\* no entry deeper than MaxDepth.
RECURSIVE TreesOfSize(_)
TreesOfSize(n) ==
    IF n = 0 THEN {EmptyFs}
    ELSE UNION { { f @@ (p :> KindOf(p[Len(p)])) :
                     p \in ( { <<nm>> : nm \in RootEntryNames }
                             \cup { d \o <<nm>> :
                                      d \in {x \in DOMAIN f : f[x] = "dir" /\ Len(x) < MaxDepth},
                                      nm \in NestedEntryNames } ) \ DOMAIN f } :
                 f \in TreesOfSize(n - 1) }

Trees == UNION { TreesOfSize(n) : n \in 0..MaxEntries }

\* A parsed .gitignore rule: include is False for a "!" rule; anchored for a
\* rule with a "/" before its end; dir_only for a rule ending in "/"; segs
\* the rule's segments between the slashes.
Rule(include, anchored, dir_only, segs) ==
    [include |-> include, anchored |-> anchored, dir_only |-> dir_only, segs |-> segs]

\* What is at root_dir/.gitignore.
GitFile(state, rules) == [state |-> state, rules |-> rules]
GI_ABSENT == GitFile("absent", <<>>)
\* d
\* !d/e
GI_A == GitFile("ok", << Rule(TRUE, FALSE, FALSE, <<N_d>>),
                         Rule(FALSE, TRUE, FALSE, <<N_d, N_e>>) >>)
\* e
\* !d/e
\* !z.pyc
\* !c
GI_B == GitFile("ok", << Rule(TRUE, FALSE, FALSE, <<N_e>>),
                         Rule(FALSE, TRUE, FALSE, <<N_d, N_e>>),
                         Rule(FALSE, FALSE, FALSE, <<N_zpyc>>),
                         Rule(FALSE, FALSE, FALSE, <<N_c>>) >>)
\* d/
GI_C == GitFile("ok", << Rule(TRUE, FALSE, TRUE, <<N_d>>) >>)
GitignoreFiles ==
    { GI_ABSENT, GitFile("unreadable", <<>>), GitFile("invalid", <<>>),
      GitFile("undecodable", <<>>), GI_A, GI_B, GI_C }

\* The root's entries: the tree plus the .gitignore file when there is one.
WithGitignore(t, g) ==
    IF g.state = "absent" THEN t ELSE t @@ (<<GITIGNORE_NAME>> :> "file")

\* The directories that fail to list, each with the error listing raises.
UnlistableChoices(f, rk) ==
    LET dirs == IF rk = "dir" THEN {<<>>} \cup {d \in DOMAIN f : f[d] = "dir"} ELSE {}
    IN UNION { [S -> {"PermissionError", "OSError"}] :
               S \in {X \in SUBSET dirs : Cardinality(X) <= MaxUnlistable} }

\* The -i options of the command, and the ignore_patterns argument of
\* DirectoryTree (is_none: the argument is None).
ExtraIgnores == { {}, {N_d} }
IgnoreArgs == { [is_none |-> TRUE, patterns |-> {}],
                [is_none |-> FALSE, patterns |-> {}],
                [is_none |-> FALSE, patterns |-> {N_c, <<42, 46, 112, 121, 99>>}] }

VARIABLES
    mode,            \* "cli": the command runs; "api": a caller uses DirectoryTree
    root_kind,       \* what the root path names: "dir", "file" or "missing"
    fs,              \* the entries below the root: path -> "file" | "dir"
    unlistable,      \* directory -> the error its listing raises
    gitignore_file,  \* what is at root/.gitignore
    pc,              \* "start", "constructed", "loop", "returned", "echoed", "exit"
    clipboard,       \* the --clipboard/--no-clipboard flag
    constructed,     \* a DirectoryTree exists
    ignore_patterns, \* self.ignore_patterns
    gitignore_spec,  \* self.gitignore_spec: [loaded, rules]; loaded FALSE is None
    tree,            \* generate(): the local tree
    items,           \* generate(): the local items
    i,               \* generate(): the loop index (0-based)
    rets,            \* the values generate() has returned, oldest first
    asked,           \* the caller's last should_ignore call: <<path, verdict>>, or <<>>
    stdout,          \* what click.echo wrote to standard output
    stderr,          \* the diagnostics written with err=True
    clip,            \* the clipboard: [set, text]
    clip_attempts,   \* calls of pyperclip.copy
    exit_code        \* the command's exit status, -1 while running

vars == <<mode, root_kind, fs, unlistable, gitignore_file, pc, clipboard,
          constructed, ignore_patterns, gitignore_spec, tree, items, i, rets,
          asked, stdout, stderr, clip, clip_attempts, exit_code>>

env == <<mode, root_kind, fs, unlistable, gitignore_file>>

(* ------------------------------------------------------------------ *)
(* str and Path primitives                                             *)
(* ------------------------------------------------------------------ *)
Min(a, b) == IF a < b THEN a ELSE b

\* str.__lt__: code point order, a proper prefix first
StrLt(s, t) ==
    \E k \in 1..(Min(Len(s), Len(t)) + 1) :
        /\ \A j \in 1..(k - 1) : s[j] = t[j]
        /\ \/ k > Len(s) /\ k <= Len(t)
           \/ k <= Len(s) /\ k <= Len(t) /\ s[k] < t[k]

\* PurePath.__lt__: the parts compared as lists of str
PathLt(p, q) ==
    \E k \in 1..(Min(Len(p), Len(q)) + 1) :
        /\ \A j \in 1..(k - 1) : p[j] = q[j]
        /\ \/ k > Len(p) /\ k <= Len(q)
           \/ k <= Len(p) /\ k <= Len(q) /\ StrLt(p[k], q[k])

startswith(s, pre) == Len(s) >= Len(pre) /\ SubSeq(s, 1, Len(pre)) = pre
endswith(s, suf) == Len(s) >= Len(suf) /\ SubSeq(s, Len(s) - Len(suf) + 1, Len(s)) = suf

\* Path.name
name(path) == path[Len(path)]

\* Path.is_dir(): False for what does not exist
is_dir(path) == path \in DOMAIN fs /\ fs[path] = "dir"

\* The error Path.iterdir() raises on directory, "none" when it lists.
ListError(directory) ==
    IF directory = <<>> /\ root_kind = "missing" THEN "FileNotFoundError"
    ELSE IF directory = <<>> /\ root_kind = "file" THEN "NotADirectoryError"
    ELSE IF directory \in DOMAIN unlistable THEN unlistable[directory]
    ELSE "none"

\* Path.iterdir(): the entries directly in directory
iterdir(directory) ==
    { p \in DOMAIN fs : Len(p) = Len(directory) + 1
                        /\ SubSeq(p, 1, Len(directory)) = directory }

\* The listing left in descending order.
RECURSIVE sorted_Descending(_)
sorted_Descending(S) ==
    IF S = {} THEN <<>>
    ELSE LET m == CHOOSE x \in S : \A y \in S \ {x} : PathLt(y, x)
         IN <<m>> \o sorted_Descending(S \ {m})

\* sorted() of a collection of paths
RECURSIVE sorted(_)
sorted(S) ==
    IF S = {} THEN <<>>
    ELSE LET m == CHOOSE x \in S : \A y \in S \ {x} : PathLt(x, y)
         IN <<m>> \o sorted(S \ {m})

\* A line written with click.echo(..., err=True)
Diag(msg, path) == [msg |-> msg, path |-> path]

(* ------------------------------------------------------------------ *)
(* pathspec: GitWildMatchPattern rules and PathSpec.match_file         *)
(* ------------------------------------------------------------------ *)
\* One rule's regex against the parts of a root-relative path: an anchored
\* rule matches from the first part, another at any depth; the rule covers
\* the path itself and everything below it, a rule ending in "/" only what
\* is below it (the path string given to match_file has no trailing "/").
RuleMatches(rule, parts) ==
    LET m == Len(rule.segs)
    IN \E k \in (IF rule.anchored THEN {0} ELSE 0..Len(parts)) :
          /\ k + m <= Len(parts)
          /\ SubSeq(parts, k + 1, k + m) = rule.segs
          /\ (rule.dir_only => k + m < Len(parts))

\* PathSpec.match_file: the last matching rule decides
match_file(rules, parts) ==
    LET hits == {k \in 1..Len(rules) : RuleMatches(rules[k], parts)}
    IN IF hits = {} THEN FALSE
       ELSE rules[CHOOSE k \in hits : \A j \in hits : j <= k].include

(* ------------------------------------------------------------------ *)
(* DirectoryTree                                                       *)
(* ------------------------------------------------------------------ *)
NoSpec == [loaded |-> FALSE, rules |-> <<>>]

\* _load_gitignore with the failures swallowed without a warning.
_load_gitignore_Silent ==
    IF root_kind = "dir" /\ gitignore_file.state = "ok"
    THEN [spec |-> [loaded |-> TRUE, rules |-> gitignore_file.rules], err |-> <<>>]
    ELSE [spec |-> NoSpec, err |-> <<>>]

\* _load_gitignore: the PathSpec (or None) and what it writes to stderr
_load_gitignore ==
    IF root_kind # "dir" \/ gitignore_file.state = "absent"
    THEN [spec |-> NoSpec, err |-> <<>>]
    ELSE IF gitignore_file.state = "unreadable"
    THEN [spec |-> NoSpec,
          err |-> <<Diag("Warning: Could not read .gitignore file", <<>>)>>]
    ELSE IF gitignore_file.state = "invalid"
    THEN [spec |-> NoSpec,
          err |-> <<Diag("Warning: Invalid pattern in .gitignore", <<>>)>>]
    ELSE IF gitignore_file.state = "undecodable"
    THEN [spec |-> NoSpec,
          err |-> <<Diag("Warning: Unexpected error processing .gitignore", <<>>)>>]
    ELSE [spec |-> [loaded |-> TRUE, rules |-> gitignore_file.rules], err |-> <<>>]

\* path.relative_to(self.root_dir) raises ValueError for a path that is not
\* below the root
RelativeToFails(path) == path # <<>> /\ path[1] = SEP

\* pattern.startswith('*.') and path.name.endswith(pattern[1:])
SuffixRuleMatches(pattern, nm) ==
    startswith(pattern, STAR_DOT) /\ endswith(nm, Tail(pattern))

\* should_ignore with the gitignore spec consulted before the pattern set.
should_ignore_GitignoreFirst(path) ==
    IF gitignore_spec.loaded /\ ~RelativeToFails(path)
    THEN [ret |-> match_file(gitignore_spec.rules, path), err |-> <<>>]
    ELSE IF name(path) \in ignore_patterns
    THEN [ret |-> TRUE, err |-> <<>>]
    ELSE [ret |-> \E pattern \in ignore_patterns :
                     SuffixRuleMatches(pattern, name(path)),
          err |-> <<>>]

\* should_ignore(path): the verdict and what it writes to stderr
should_ignore(path) ==
    IF name(path) \in ignore_patterns
    THEN [ret |-> TRUE, err |-> <<>>]
    ELSE IF \E pattern \in ignore_patterns : SuffixRuleMatches(pattern, name(path))
    THEN [ret |-> TRUE, err |-> <<>>]
    ELSE IF gitignore_spec.loaded
    THEN IF RelativeToFails(path)
         THEN [ret |-> FALSE, err |-> <<Diag("Warning: Error processing path", path)>>]
         ELSE [ret |-> match_file(gitignore_spec.rules, path), err |-> <<>>]
    ELSE [ret |-> FALSE, err |-> <<>>]

\* [item for item in sorted(directory.iterdir()) if not self.should_ignore(item)]
RECURSIVE FilterItems(_)
FilterItems(listing) ==
    IF listing = <<>> THEN [items |-> <<>>, err |-> <<>>]
    ELSE LET v == should_ignore(Head(listing))
             rest == FilterItems(Tail(listing))
         IN [items |-> (IF v.ret THEN <<>> ELSE <<Head(listing)>>) \o rest.items,
             err |-> v.err \o rest.err]

\* directory.name + '/' if directory.is_dir() else directory.name
DisplayName(directory) ==
    IF is_dir(directory) THEN name(directory) \o SEP ELSE name(directory)

\* The line without its newline.
TreeLine_NoNewline(prefix, is_last, nm) ==
    prefix \o (IF is_last THEN CONNECTOR_LAST ELSE CONNECTOR_MID) \o nm

\* f"{prefix}{'└── ' if is_last else '├── '}{name}\n"
TreeLine(prefix, is_last, nm) ==
    prefix \o (IF is_last THEN CONNECTOR_LAST ELSE CONNECTOR_MID) \o nm \o NL

\* The bar drawn under every ancestor.
NewPrefix_AlwaysBar(prefix, is_last) == prefix \o PREFIX_BAR

\* prefix + ('    ' if is_last else '│   ')
NewPrefix(prefix, is_last) ==
    prefix \o (IF is_last THEN PREFIX_BLANK ELSE PREFIX_BAR)

\* i == len(items) - 1
IsLastItem(k, its) == k = Len(its) - 1

\* _generate_tree(directory, prefix, is_last): the text and what it writes
\* to stderr.  ForItems is its loop over items from index k (0-based) on.
RECURSIVE _generate_tree(_, _, _), ForItems(_, _, _, _)
ForItems(its, k, prefix, is_last) ==
    IF k >= Len(its) THEN [tree |-> <<>>, err |-> <<>>]
    ELSE LET r == _generate_tree(its[k + 1], NewPrefix(prefix, is_last),
                                 IsLastItem(k, its))
             rest == ForItems(its, k + 1, prefix, is_last)
         IN [tree |-> r.tree \o rest.tree, err |-> r.err \o rest.err]

_generate_tree(directory, prefix, is_last) ==
    LET line == TreeLine(prefix, is_last, DisplayName(directory))
    IN IF ~is_dir(directory) THEN [tree |-> line, err |-> <<>>]
       ELSE IF ListError(directory) = "PermissionError"
       THEN [tree |-> line,
             err |-> <<Diag("Warning: Permission denied accessing", directory)>>]
       ELSE IF ListError(directory) # "none"
       THEN [tree |-> line,
             err |-> <<Diag("Warning: Error processing directory", directory)>>]
       ELSE LET f == FilterItems(sorted(iterdir(directory)))
                sub == ForItems(f.items, 0, prefix, is_last)
            IN [tree |-> line \o sub.tree, err |-> f.err \o sub.err]

\* f"{self.root_dir.name}/\n"
RootLine == ROOT_NAME \o SEP \o NL

\* The text kept from the call before.
StartTree_Accumulates == tree \o RootLine

\* generate(): tree = f"{self.root_dir.name}/\n"
StartTree == RootLine

\* The text built before the listing failed.
FailedResult_Partial == RootLine

\* generate(): return "" in both except branches
FailedResult == <<>>

\* The value generate() returned last
Ret == rets[Len(rets)]

(* ------------------------------------------------------------------ *)
(* The state machine                                                   *)
(* ------------------------------------------------------------------ *)
Init ==
    /\ mode \in {"cli", "api"}
    /\ root_kind \in {"dir", "file", "missing"}
    /\ gitignore_file \in (IF root_kind = "dir" THEN GitignoreFiles ELSE {GI_ABSENT})
    /\ fs \in (IF root_kind = "dir"
               THEN {WithGitignore(t, gitignore_file) : t \in Trees}
               ELSE {EmptyFs})
    /\ unlistable \in UnlistableChoices(fs, root_kind)
    /\ pc = "start"
    /\ clipboard = FALSE
    /\ constructed = FALSE
    /\ ignore_patterns = {}
    /\ gitignore_spec = NoSpec
    /\ tree = <<>>
    /\ items = <<>>
    /\ i = 0
    /\ rets = <<>>
    /\ asked = <<>>
    /\ stdout = <<>>
    /\ stderr = <<>>
    /\ clip = [set |-> FALSE, text |-> <<>>]
    /\ clip_attempts = 0
    /\ exit_code = -1

\* DirectoryTree.__init__(root_dir, ignore_patterns)
DirectoryTreeInit(arg) ==
    /\ ignore_patterns' = (IF arg.is_none THEN DEFAULT_IGNORE_PATTERNS ELSE arg.patterns)
    /\ gitignore_spec' = _load_gitignore.spec
    /\ stderr' = stderr \o _load_gitignore.err
    /\ constructed' = TRUE

\* click.Path(exists=True) refuses a path that does not exist: a usage
\* error, exit status 2, before cli's body runs.
CliUsageError ==
    /\ mode = "cli" /\ pc = "start"
    /\ root_kind = "missing"
    /\ stderr' = stderr \o <<Diag("Usage error: path does not exist", <<>>)>>
    /\ exit_code' = 2
    /\ pc' = "exit"
    /\ UNCHANGED <<env, clipboard, constructed, ignore_patterns, gitignore_spec,
                   tree, items, i, rets, asked, stdout, clip, clip_attempts>>

\* cli: the pattern set and the DirectoryTree
CliConstruct ==
    /\ mode = "cli" /\ pc = "start"
    /\ root_kind # "missing"
    /\ \E ignore \in ExtraIgnores, cb \in BOOLEAN :
          /\ clipboard' = cb
          /\ DirectoryTreeInit([is_none |-> FALSE,
                                patterns |-> DEFAULT_IGNORE_PATTERNS \cup ignore])
    /\ pc' = "constructed"
    /\ UNCHANGED <<env, tree, items, i, rets, asked, stdout, clip, clip_attempts,
                   exit_code>>

\* A caller constructs a DirectoryTree
ApiConstruct ==
    /\ mode = "api" /\ pc = "start"
    /\ \E arg \in IgnoreArgs : DirectoryTreeInit(arg)
    /\ pc' = "constructed"
    /\ UNCHANGED <<env, clipboard, tree, items, i, rets, asked, stdout, clip,
                   clip_attempts, exit_code>>

\* A caller asks should_ignore about an entry, or about a path outside the
\* root, once before a generate() call
ApiShouldIgnore ==
    /\ mode = "api" /\ pc \in {"constructed", "returned"}
    /\ Len(rets) < MaxCalls
    /\ asked = <<>>
    /\ \E path \in DOMAIN fs \cup {OUTSIDE_PATH} :
          /\ asked' = <<path, should_ignore(path).ret>>
          /\ stderr' = stderr \o should_ignore(path).err
    /\ UNCHANGED <<env, pc, clipboard, constructed, ignore_patterns, gitignore_spec,
                   tree, items, i, rets, stdout, clip, clip_attempts, exit_code>>

\* generate(): the root line and the root's filtered, sorted listing; or the
\* listing raises and generate returns ""
GenerateBegin ==
    /\ \/ pc = "constructed"
       \/ mode = "api" /\ pc = "returned"
    /\ Len(rets) < MaxCalls
    /\ IF ListError(<<>>) = "none"
       THEN LET f == FilterItems(sorted(iterdir(<<>>)))
            IN /\ tree' = StartTree
               /\ items' = f.items
               /\ i' = 0
               /\ stderr' = stderr \o f.err
               /\ pc' = "loop"
               /\ rets' = rets
       ELSE /\ stderr' = stderr \o
                  <<Diag(IF ListError(<<>>) = "PermissionError"
                         THEN "Error: Permission denied accessing root directory"
                         ELSE "Error: Failed to generate directory tree", <<>>)>>
            /\ rets' = Append(rets, FailedResult)
            /\ pc' = "returned"
            /\ UNCHANGED <<tree, items, i>>
    /\ asked' = <<>>
    /\ UNCHANGED <<env, clipboard, constructed, ignore_patterns, gitignore_spec,
                   stdout, clip, clip_attempts, exit_code>>

\* The loop with an error below the root escaping _generate_tree into
\* generate()'s except branch.
GenerateStep_Propagates ==
    /\ pc = "loop"
    /\ i < Len(items)
    /\ LET r == _generate_tree(items[i + 1], <<>>, IsLastItem(i, items))
       IN IF r.err = <<>>
          THEN /\ tree' = tree \o r.tree
               /\ i' = i + 1
               /\ UNCHANGED <<pc, rets, stderr>>
          ELSE /\ rets' = Append(rets, <<>>)
               /\ pc' = "returned"
               /\ stderr' = stderr \o
                     <<Diag("Error: Failed to generate directory tree", <<>>)>>
               /\ UNCHANGED <<tree, i>>
    /\ UNCHANGED <<env, clipboard, constructed, ignore_patterns, gitignore_spec,
                   items, asked, stdout, clip, clip_attempts, exit_code>>

\* generate(): one pass of the loop over the root's items
GenerateStep ==
    /\ pc = "loop"
    /\ i < Len(items)
    /\ LET r == _generate_tree(items[i + 1], <<>>, IsLastItem(i, items))
       IN /\ tree' = tree \o r.tree
          /\ stderr' = stderr \o r.err
    /\ i' = i + 1
    /\ UNCHANGED <<env, pc, clipboard, constructed, ignore_patterns, gitignore_spec,
                   items, rets, asked, stdout, clip, clip_attempts, exit_code>>

\* generate(): return tree
GenerateReturn ==
    /\ pc = "loop"
    /\ i = Len(items)
    /\ rets' = Append(rets, tree)
    /\ pc' = "returned"
    /\ UNCHANGED <<env, clipboard, constructed, ignore_patterns, gitignore_spec,
                   tree, items, i, asked, stdout, stderr, clip, clip_attempts,
                   exit_code>>

\* cli: if not tree: return
CliReturnEmpty ==
    /\ mode = "cli" /\ pc = "returned"
    /\ Ret = <<>>
    /\ exit_code' = 0
    /\ pc' = "exit"
    /\ UNCHANGED <<env, clipboard, constructed, ignore_patterns, gitignore_spec,
                   tree, items, i, rets, asked, stdout, stderr, clip, clip_attempts>>

\* cli: click.echo(tree) writes the text and a newline
CliEcho ==
    /\ mode = "cli" /\ pc = "returned"
    /\ Ret # <<>>
    /\ stdout' = Append(stdout, Ret \o NL)
    /\ pc' = "echoed"
    /\ UNCHANGED <<env, clipboard, constructed, ignore_patterns, gitignore_spec,
                   tree, items, i, rets, asked, stderr, clip, clip_attempts,
                   exit_code>>

\* cli: --no-clipboard
CliNoClipboard ==
    /\ mode = "cli" /\ pc = "echoed"
    /\ ~clipboard
    /\ exit_code' = 0
    /\ pc' = "exit"
    /\ UNCHANGED <<env, clipboard, constructed, ignore_patterns, gitignore_spec,
                   tree, items, i, rets, asked, stdout, stderr, clip, clip_attempts>>

\* cli: pyperclip.copy(tree) succeeds
CliCopyOk ==
    /\ mode = "cli" /\ pc = "echoed"
    /\ clipboard
    /\ clip_attempts' = clip_attempts + 1
    /\ clip' = [set |-> TRUE, text |-> Ret]
    /\ stderr' = stderr \o <<Diag("Tree structure copied to clipboard!", <<>>)>>
    /\ exit_code' = 0
    /\ pc' = "exit"
    /\ UNCHANGED <<env, clipboard, constructed, ignore_patterns, gitignore_spec,
                   tree, items, i, rets, asked, stdout>>

\* cli: pyperclip.copy(tree) raises PyperclipException
CliCopyDenied ==
    /\ mode = "cli" /\ pc = "echoed"
    /\ clipboard
    /\ clip_attempts' = clip_attempts + 1
    /\ stderr' = stderr \o
          <<Diag("Failed to copy to clipboard - clipboard access denied", <<>>)>>
    /\ exit_code' = 0
    /\ pc' = "exit"
    /\ UNCHANGED <<env, clipboard, constructed, ignore_patterns, gitignore_spec,
                   tree, items, i, rets, asked, stdout, clip>>

\* The command failing when the copy fails.
CliCopyError_Exits1 ==
    /\ mode = "cli" /\ pc = "echoed"
    /\ clipboard
    /\ clip_attempts' = clip_attempts + 1
    /\ stderr' = stderr \o <<Diag("Failed to copy to clipboard", <<>>)>>
    /\ exit_code' = 1
    /\ pc' = "exit"
    /\ UNCHANGED <<env, clipboard, constructed, ignore_patterns, gitignore_spec,
                   tree, items, i, rets, asked, stdout, clip>>

\* cli: pyperclip.copy(tree) raises another Exception
CliCopyError ==
    /\ mode = "cli" /\ pc = "echoed"
    /\ clipboard
    /\ clip_attempts' = clip_attempts + 1
    /\ stderr' = stderr \o <<Diag("Failed to copy to clipboard", <<>>)>>
    /\ exit_code' = 0
    /\ pc' = "exit"
    /\ UNCHANGED <<env, clipboard, constructed, ignore_patterns, gitignore_spec,
                   tree, items, i, rets, asked, stdout, clip>>

Next ==
    \/ CliUsageError
    \/ CliConstruct
    \/ ApiConstruct
    \/ ApiShouldIgnore
    \/ GenerateBegin
    \/ GenerateStep
    \/ GenerateReturn
    \/ CliReturnEmpty
    \/ CliEcho
    \/ CliNoClipboard
    \/ CliCopyOk
    \/ CliCopyDenied
    \/ CliCopyError

Spec == Init /\ [][Next]_vars

(* ------------------------------------------------------------------ *)
(* Reading a rendered tree back                                        *)
(* ------------------------------------------------------------------ *)
\* The lines of a text, without their newlines; a text that does not end
\* with a newline has its rest as a last line.
RECURSIVE SplitLines(_)
SplitLines(text) ==
    IF text = <<>> THEN <<>>
    ELSE IF \E k \in 1..Len(text) : text[k] = NL[1]
    THEN LET k == CHOOSE j \in 1..Len(text) :
                     text[j] = NL[1] /\ \A h \in 1..(j - 1) : text[h] # NL[1]
         IN <<SubSeq(text, 1, k - 1)>> \o SplitLines(SubSeq(text, k + 1, Len(text)))
    ELSE <<text>>

\* Where a line's connector starts: the first "└" or "├"; 0 if it has none.
ConnectorAt(line) ==
    LET at == {k \in 1..Len(line) : line[k] \in {CONNECTOR_LAST[1], CONNECTOR_MID[1]}}
    IN IF at = {} THEN 0 ELSE CHOOSE k \in at : \A j \in at : k <= j

\* The depth a line is drawn at (1: an entry of the root), 0 without connector.
LineDepth(line) ==
    IF ConnectorAt(line) = 0 THEN 0 ELSE ((ConnectorAt(line) - 1) \div 4) + 1

\* The name a line shows, without the "/" of a directory.
LineName(line) ==
    LET shown == SubSeq(line, ConnectorAt(line) + 4, Len(line))
    IN IF shown # <<>> /\ shown[Len(shown)] = SEP[1]
       THEN SubSeq(shown, 1, Len(shown) - 1) ELSE shown

\* The path each entry line stands for: its name below the path of the
\* nearest line above it drawn one level higher.  A line that has no such
\* line above it gets the path <<>>, which is no entry.
RECURSIVE ParsePaths(_, _)
ParsePaths(lines, n) ==
    IF n = 0 THEN <<>>
    ELSE LET before == ParsePaths(lines, n - 1)
             d == LineDepth(lines[n])
             ups == {k \in 1..(n - 1) : Len(before[k]) = d - 1 /\ before[k] # <<>>}
         IN Append(before,
                   IF d = 0 THEN <<>>
                   ELSE IF d = 1 THEN <<LineName(lines[n])>>
                   ELSE IF ups = {} THEN <<>>
                   ELSE before[CHOOSE k \in ups : \A j \in ups : j <= k]
                        \o <<LineName(lines[n])>>)

\* The entry lines of the last returned text, and the paths they stand for.
EntryLines ==
    LET lines == SplitLines(Ret) IN IF lines = <<>> THEN <<>> ELSE Tail(lines)
EntryPaths == ParsePaths(EntryLines, Len(EntryLines))

(* ------------------------------------------------------------------ *)
(* What the tree of a snapshot should show                             *)
(* ------------------------------------------------------------------ *)
Parent(p) == SubSeq(p, 1, Len(p) - 1)
IsUnder(p, d) == Len(p) > Len(d) /\ SubSeq(p, 1, Len(d)) = d

RootListable == ListError(<<>>) = "none"
HasReturned == rets # <<>>

\* An entry survives if should_ignore rejects neither it nor an ancestor
\* below the root, and every directory above it can be listed.
Survives(p) ==
    /\ p \in DOMAIN fs
    /\ \A k \in 1..Len(p) : ~should_ignore(SubSeq(p, 1, k)).ret
    /\ \A k \in 0..(Len(p) - 1) : SubSeq(p, 1, k) \notin DOMAIN unlistable
Survivors == {p \in DOMAIN fs : Survives(p)}

\* p is the last entry of its parent among surv, by name.
IsLastAmong(p, surv) ==
    ~\E q \in surv : Parent(q) = Parent(p) /\ StrLt(p[Len(p)], q[Len(q)])

\* One 4-character segment per ancestor below the root, outermost first.
RECURSIVE AncestorSegments(_, _, _)
AncestorSegments(p, k, surv) ==
    IF k >= Len(p) THEN <<>>
    ELSE (IF IsLastAmong(SubSeq(p, 1, k), surv) THEN PREFIX_BLANK ELSE PREFIX_BAR)
         \o AncestorSegments(p, k + 1, surv)

\* The line of entry p in a tree that shows the entries surv.
ExpectedLine(p, surv) ==
    AncestorSegments(p, 1, surv)
    \o (IF IsLastAmong(p, surv) THEN CONNECTOR_LAST ELSE CONNECTOR_MID)
    \o p[Len(p)]
    \o (IF fs[p] = "dir" THEN SEP ELSE <<>>)

\* root a/ with files b, c and subdirectory d/ holding file e
EXAMPLE_FS == (<<N_b>> :> "file") @@ (<<N_c>> :> "file") @@ (<<N_d>> :> "dir")
              @@ (<<N_d, N_e>> :> "file")
\* a/
\* ├── b
\* ├── c
\* └── d/
\*     └── e
EXAMPLE_TEXT ==
    <<97, 47, 10>>
    \o <<9500, 9472, 9472, 32, 98, 10>>
    \o <<9500, 9472, 9472, 32, 99, 10>>
    \o <<9492, 9472, 9472, 32, 100, 47, 10>>
    \o <<32, 32, 32, 32, 9492, 9472, 9472, 32, 101, 10>>

(* ------------------------------------------------------------------ *)
(* C1                                                                  *)
(* ------------------------------------------------------------------ *)
\* C1: every line generate() returns for an entry is the ancestors'
\* segments (blank under a last surviving ancestor, bar otherwise), the
\* connector ("└── " for the last surviving entry of its parent, else
\* "├── "), the name, and "/" for a directory; and the tree a/{b, c, d/{e}}
\* with nothing ignored renders as the five lines of the example.
C1_LineFormat ==
    pc = "returned" =>
        LET lines == EntryLines
            paths == ParsePaths(lines, Len(lines))
            surv == Survivors
        IN /\ \A k \in 1..Len(lines) :
                 /\ paths[k] \in DOMAIN fs
                 /\ lines[k] = ExpectedLine(paths[k], surv)
           /\ (fs = EXAMPLE_FS /\ unlistable = <<>> /\ surv = DOMAIN fs)
                 => Ret = EXAMPLE_TEXT

\* A returned tree in which a surviving entry two levels down is the last of
\* its directory only because a later sibling is ignored, under an ancestor
\* that is not the last of the root.
C1_Witness ==
    /\ pc = "returned"
    /\ \E p \in Survivors, q \in DOMAIN fs :
          /\ Len(p) = 2 /\ Parent(q) = Parent(p)
          /\ should_ignore(q).ret /\ StrLt(p[2], q[2])
          /\ IsLastAmong(p, Survivors) /\ ~IsLastAmong(Parent(p), Survivors)
          /\ \E k \in 1..Len(EntryLines) : EntryPaths[k] = p

(* ------------------------------------------------------------------ *)
(* C2                                                                  *)
(* ------------------------------------------------------------------ *)
\* The entries should_ignore rejects neither themselves nor through an
\* ancestor below the root.
NotIgnored(p) == \A k \in 1..Len(p) : ~should_ignore(SubSeq(p, 1, k)).ret

\* The root and every directory that is not ignored can be listed.
AllShownListable == \A d \in DOMAIN unlistable : d # <<>> /\ ~NotIgnored(d)

\* Every line followed by one newline.
RECURSIVE JoinLines(_)
JoinLines(lines) ==
    IF lines = <<>> THEN <<>> ELSE Head(lines) \o NL \o JoinLines(Tail(lines))

\* C2: when the root and every non-ignored directory can be listed, the
\* returned text is the root line (name and "/") followed by exactly one line
\* for each entry that neither is ignored nor has an ignored ancestor, and
\* nothing else; every line ends with exactly one newline.
C2_ExactlyTheSurvivors ==
    (pc = "returned" /\ root_kind = "dir" /\ AllShownListable) =>
        LET all == SplitLines(Ret)
            lines == EntryLines
            paths == ParsePaths(lines, Len(lines))
            keep == {p \in DOMAIN fs : NotIgnored(p)}
        IN /\ all # <<>>
           /\ all[1] = ROOT_NAME \o SEP
           /\ Ret = JoinLines(all)
           /\ \A k \in 1..Len(all) : all[k] # <<>>
           /\ {paths[k] : k \in 1..Len(paths)} = keep
           /\ Len(lines) = Cardinality(keep)
           /\ (keep = {} => Ret = ROOT_NAME \o SEP \o NL)

\* A returned tree of a root that holds an ignored directory with an entry
\* in it that should_ignore alone would keep (a later "!" rule names it).
C2_Witness ==
    /\ pc = "returned" /\ root_kind = "dir" /\ AllShownListable
    /\ gitignore_spec.loaded
    /\ \E p \in DOMAIN fs :
          /\ Len(p) = 2
          /\ ~should_ignore(p).ret
          /\ should_ignore(Parent(p)).ret
    /\ \E p \in DOMAIN fs : NotIgnored(p) /\ p # <<GITIGNORE_NAME>>

(* ------------------------------------------------------------------ *)
(* C3                                                                  *)
(* ------------------------------------------------------------------ *)
IsPrefixOf(s, t) == Len(s) <= Len(t) /\ SubSeq(t, 1, Len(s)) = s

\* The entry lines are in depth-first pre-order with the children of one
\* directory in strict ascending order of name.
C3_Order ==
    pc = "returned" =>
        LET lines == EntryLines
            paths == ParsePaths(lines, Len(lines))
        IN /\ \A k \in 1..Len(paths) : paths[k] # <<>>
           /\ \A j \in 1..Len(paths), k \in 1..Len(paths) :
                 (j < k /\ Parent(paths[j]) = Parent(paths[k]))
                     => StrLt(paths[j][Len(paths[j])], paths[k][Len(paths[k])])
           /\ \A k \in 1..Len(paths) :
                 Len(paths[k]) >= 2 =>
                     \E j \in 1..(k - 1) :
                        /\ paths[j] = Parent(paths[k])
                        /\ \A h \in (j + 1)..k : IsUnder(paths[h], paths[j])

\* A step of generate()'s loop only appends to the text, and the text
\* returned is the text built.
C3_Append ==
    pc = "loop" =>
        /\ IsPrefixOf(tree, tree')
        /\ (pc' = "returned" => rets' = Append(rets, tree))

\* C3: the children of a directory appear in strict ascending order of
\* name, a directory's line comes right before the contiguous lines of its
\* descendants and those before its next sibling; no line is moved or
\* removed once appended.
C3_PreOrder == [](C3_Order) /\ [][C3_Append]_vars

\* A returned tree with a directory that shows two entries and is followed
\* by a sibling.
C3_Witness ==
    /\ pc = "returned"
    /\ \E d \in Survivors :
          /\ fs[d] = "dir"
          /\ Cardinality({p \in Survivors : Parent(p) = d}) >= 2
          /\ ~IsLastAmong(d, Survivors)
          /\ \E k \in 1..Len(EntryLines) : EntryPaths[k] = d

(* ------------------------------------------------------------------ *)
(* C4                                                                  *)
(* ------------------------------------------------------------------ *)
\* The entry's bare name equals a literal rule.
LiteralRule(p) == p[Len(p)] \in ignore_patterns

\* Some rule is "*.<suffix>" and the name ends with ".<suffix>".
SuffixRule(p) ==
    \E r \in ignore_patterns :
        /\ Len(r) >= 2 /\ r[1] = STAR_DOT[1] /\ r[2] = STAR_DOT[2]
        /\ LET dotsuffix == SubSeq(r, 2, Len(r))
               nm == p[Len(p)]
           IN Len(nm) >= Len(dotsuffix)
              /\ \A k \in 1..Len(dotsuffix) :
                    nm[Len(nm) - Len(dotsuffix) + k] = dotsuffix[k]

\* The loaded .gitignore excludes p by one rule and re-includes it by a
\* later "!" rule that no later rule overrides.
ReIncluded(p) ==
    /\ gitignore_spec.loaded
    /\ \E j \in 1..Len(gitignore_spec.rules), k \in 1..Len(gitignore_spec.rules) :
          /\ j < k
          /\ gitignore_spec.rules[j].include /\ RuleMatches(gitignore_spec.rules[j], p)
          /\ ~gitignore_spec.rules[k].include /\ RuleMatches(gitignore_spec.rules[k], p)
          /\ \A h \in (k + 1)..Len(gitignore_spec.rules) :
                ~RuleMatches(gitignore_spec.rules[h], p)

\* C4: for an entry under the root should_ignore answers True on a literal
\* rule, else True on a suffix rule, else the gitignore matcher's verdict if
\* a spec is loaded, else False; so a literal or suffix match is ignored
\* whatever the .gitignore says or if there is none, and an entry matching
\* neither that a later "!" rule re-includes is not ignored.
C4_FirstMatchWins ==
    (asked # <<>> /\ asked[1] \in DOMAIN fs) =>
        LET p == asked[1]
        IN /\ asked[2] = (IF LiteralRule(p) THEN TRUE
                          ELSE IF SuffixRule(p) THEN TRUE
                          ELSE IF gitignore_spec.loaded
                               THEN match_file(gitignore_spec.rules, p)
                          ELSE FALSE)
           /\ (LiteralRule(p) \/ SuffixRule(p)) => asked[2]
           /\ (~LiteralRule(p) /\ ~SuffixRule(p) /\ ReIncluded(p)) => ~asked[2]

\* should_ignore has answered True for an entry that matches a literal or
\* suffix rule and that a "!" rule of the loaded .gitignore names.
C4_Witness ==
    /\ asked # <<>> /\ asked[1] \in DOMAIN fs
    /\ LiteralRule(asked[1]) \/ SuffixRule(asked[1])
    /\ gitignore_spec.loaded
    /\ \E k \in 1..Len(gitignore_spec.rules) :
          ~gitignore_spec.rules[k].include
          /\ RuleMatches(gitignore_spec.rules[k], asked[1])
    /\ asked[2]

\* should_ignore has answered False for an entry an earlier rule excludes
\* and a later "!" rule re-includes.
C4_WitnessReIncluded ==
    /\ asked # <<>> /\ asked[1] \in DOMAIN fs
    /\ ReIncluded(asked[1]) /\ ~asked[2]

(* ------------------------------------------------------------------ *)
(* C5                                                                  *)
(* ------------------------------------------------------------------ *)
\* p's line comes before q's in a depth-first pre-order by name.
ComesBefore(p, q) ==
    \/ IsUnder(q, p)
    \/ \E k \in 1..Min(Len(p), Len(q)) :
          /\ SubSeq(p, 1, k - 1) = SubSeq(q, 1, k - 1)
          /\ StrLt(p[k], q[k])

\* The lines of the entries surv, each with its newline, in pre-order.
RECURSIVE ExpectedLines(_, _)
ExpectedLines(todo, surv) ==
    IF todo = {} THEN <<>>
    ELSE LET first == CHOOSE p \in todo : \A q \in todo \ {p} : ComesBefore(p, q)
         IN ExpectedLine(first, surv) \o NL \o ExpectedLines(todo \ {first}, surv)

\* The text of the same tree with every unlistable directory empty.
TextWithUnlistableEmpty ==
    ROOT_NAME \o SEP \o NL \o ExpectedLines(Survivors, Survivors)

\* The non-ignored directories below the root that cannot be listed.
DeniedShown == {d \in DOMAIN unlistable : d # <<>> /\ NotIgnored(d)
                                          /\ \A a \in DOMAIN unlistable : ~IsUnder(d, a)}

\* C5: with the root listable, a non-ignored subdirectory whose listing is
\* denied adds no children: the text is that of the same tree with the
\* directory empty, it is not empty, and a diagnostic names the directory.
C5_DeniedSubdirectory ==
    (pc = "returned" /\ RootListable /\ DeniedShown # {}) =>
        /\ Ret = TextWithUnlistableEmpty
        /\ Ret # <<>>
        /\ \A d \in DeniedShown :
              \E k \in 1..Len(stderr) :
                 /\ stderr[k].path = d
                 /\ stderr[k].msg = (IF unlistable[d] = "PermissionError"
                                     THEN "Warning: Permission denied accessing"
                                     ELSE "Warning: Error processing directory")

\* A returned tree with a denied directory two levels down that holds an
\* entry and lies in a directory that has a later sibling.
C5_Witness ==
    /\ pc = "returned" /\ RootListable
    /\ \E d \in DeniedShown :
          /\ unlistable[d] = "PermissionError"
          /\ Len(d) = 2
          /\ \E p \in DOMAIN fs : Parent(p) = d
          /\ ~IsLastAmong(Parent(d), Survivors)
    /\ Ret = TextWithUnlistableEmpty

(* ------------------------------------------------------------------ *)
(* C6                                                                  *)
(* ------------------------------------------------------------------ *)
RootErrorMessages == {"Error: Permission denied accessing root directory",
                      "Error: Failed to generate directory tree"}

\* C6: when the root cannot be listed generate() returns "" and reports a
\* diagnostic, and the command then writes nothing to standard output and
\* does not touch the clipboard; whatever generate() returns is "" or starts
\* with the root line.
C6_RootUnlistable ==
    /\ pc = "returned" =>
          /\ ~RootListable =>
                /\ Ret = <<>>
                /\ Cardinality({k \in 1..Len(stderr) :
                                   stderr[k].msg \in RootErrorMessages}) = Len(rets)
          /\ Ret = <<>> \/ IsPrefixOf(ROOT_NAME \o SEP \o NL, Ret)
    /\ (mode = "cli" /\ constructed /\ ~RootListable) =>
          /\ stdout = <<>>
          /\ clip_attempts = 0 /\ ~clip.set
          /\ pc = "exit" => exit_code = 0

\* The command has ended after generate() failed to list the root.
C6_Witness ==
    /\ mode = "cli" /\ pc = "exit" /\ constructed
    /\ root_kind = "dir" /\ ~RootListable
    /\ Ret = <<>> /\ stdout = <<>>

(* ------------------------------------------------------------------ *)
(* C7                                                                  *)
(* ------------------------------------------------------------------ *)
\* C7: the command rejects a root path that does not exist or is not a
\* directory before a DirectoryTree is constructed: no generate() call, and
\* never the "Failed to generate directory tree" outcome.
C7_UpfrontUsageError ==
    (mode = "cli" /\ root_kind \in {"missing", "file"}) =>
        /\ ~constructed
        /\ rets = <<>>
        /\ \A k \in 1..Len(stderr) :
              stderr[k].msg # "Error: Failed to generate directory tree"

(* ------------------------------------------------------------------ *)
(* C8                                                                  *)
(* ------------------------------------------------------------------ *)
ClipboardFailureMessages ==
    {"Failed to copy to clipboard - clipboard access denied",
     "Failed to copy to clipboard"}

\* C8: a non-empty tree is on standard output before any clipboard attempt,
\* and the text on standard output and the exit status are the same whether
\* the clipboard is off, the copy succeeds, or it fails either way; a failed
\* copy only adds a diagnostic to the error stream.
C8_ClipboardIndependent ==
    mode = "cli" =>
        /\ clip_attempts > 0 => stdout = <<Ret \o NL>>
        /\ (pc = "exit" /\ rets # <<>> /\ Ret # <<>>) =>
              /\ stdout = <<Ret \o NL>>
              /\ exit_code = 0
              /\ clip_attempts = (IF clipboard THEN 1 ELSE 0)
              /\ clip.set => clip.text = Ret

\* The command has ended after a failed clipboard copy.
C8_Witness ==
    /\ mode = "cli" /\ pc = "exit" /\ clip_attempts = 1 /\ ~clip.set
    /\ stderr[Len(stderr)].msg \in ClipboardFailureMessages
    /\ stdout = <<Ret \o NL>> /\ Len(SplitLines(Ret)) > 1

(* ------------------------------------------------------------------ *)
(* C9                                                                  *)
(* ------------------------------------------------------------------ *)
GitignoreWarnings ==
    {"Warning: Could not read .gitignore file",
     "Warning: Invalid pattern in .gitignore",
     "Warning: Unexpected error processing .gitignore"}

\* Neither the entry nor an ancestor below the root matches a literal or a
\* suffix rule.
NoPatternRule(p) ==
    \A k \in 1..Len(p) : ~LiteralRule(SubSeq(p, 1, k)) /\ ~SuffixRule(SubSeq(p, 1, k))

C10_SameText == \A j \in 1..Len(rets), k \in 1..Len(rets) : rets[j] = rets[k]

\* No step after construction changes the pattern set or the gitignore spec.
C10_FieldsKept ==
    constructed => (ignore_patterns' = ignore_patterns
                    /\ gitignore_spec' = gitignore_spec)

\* C10: generate() and should_ignore() leave ignore_patterns and
\* gitignore_spec unchanged, and consecutive generate() calls over an
\* unchanged snapshot return identical text.
C10_Idempotent == [](C10_SameText) /\ [][C10_FieldsKept]_vars

\* generate() has returned twice, after a should_ignore call in between, a
\* text with entry lines, over a snapshot with an unlistable directory.
C10_Witness ==
    /\ Len(rets) >= 2 /\ pc = "returned"
    /\ Len(SplitLines(Ret)) > 2
    /\ unlistable # <<>>
    /\ gitignore_spec.loaded

====
